---- MODULE Spec2Model ----
(***************************************************************************)
(* Random-features classifier: the legacy module (src/estimator.py) and    *)
(* the new module (src/new_version/estimator.py).                          *)
(*                                                                         *)
(* Numbers.  TLA+ has no reals.  Every float the code computes lives here  *)
(* on an integer grid: a standard-normal draw is a nonzero integer of      *)
(* -2..2 (numpy's normal returns 0.0 with probability zero), a uniform     *)
(* draw an integer of its range.  The feature counts are those of          *)
(* FeatureCounts, the divisors of 4: there every entry of scipy's DFT      *)
(* matrix is 1, -1, i or -i, up to the last bit of a double.  From the     *)
(* drawn integers on, the new module's arithmetic is exact: a float is     *)
(* (p + q sqrt(r)) / d, which the division by a row's standard deviation   *)
(* needs, and x / 0 is inf, -inf or nan.                                   *)
(* What is exact besides is the control flow, the shapes, the order and    *)
(* number of draws taken from numpy's global random state, which attribute *)
(* is written when, and which error is raised where.                       *)
(***************************************************************************)
EXTENDS Integers, Sequences, FiniteSets, TLC

\* ---------------------------------------------------------------- bounds
RngMod == 8          \* size of the modelled state space of numpy's global RandomState
MaxSeed == 1         \* integer seeds are 0..MaxSeed
MaxM == 2            \* generator calls: number of rows asked for

\* ------------------------------------------------------- program constants
SeedRange == 1000    \* np.random.randint(1000)
ScaleHigh == 20      \* np.random.randint(1, 20, (M, 1))
KernelAmp == 10      \* K = 10 * np.exp(...)

None == -1            \* random_state=None / seed=None
RngStates == 0 .. (RngMod - 1)
\* the states np.random.seed(None) can reseed to (OS entropy)
Entropy == {0, RngMod - 1}
\* the numbers of features N of the generator calls: the N at which
\* scipy.linalg.dft(N) has no entry off the quarter turns
FeatureCounts == {1, 2, 4}
\* the numbers of columns of the X handed to the estimators
EstFeatureCounts == {1, 2}
Seeds == 0 .. MaxSeed
SeedsOrNone == Seeds \cup {None}

\* ------------------------------------------------------------- matrices
Shape(A) == <<Len(A), IF Len(A) = 0 THEN 0 ELSE Len(A[1])>>

Transpose(A) ==
    [j \in 1 .. Shape(A)[2] |-> [i \in 1 .. Len(A) |-> A[i][j]]]

RECURSIVE SumTo(_, _)
SumTo(f, n) == IF n = 0 THEN 0 ELSE f[n] + SumTo(f, n - 1)

\* np.dot(A, B) / A @ B for 2-D operands; the caller checks the inner dimension
Dot(A, B) ==
    [i \in 1 .. Len(A) |->
              [k \in 1 .. Shape(B)[2] |->
                  SumTo([j \in 1 .. Len(B) |-> A[i][j] * B[j][k]], Len(B))]]

\* np.eye(N, N)
Eye(N) == [i \in 1 .. N |-> [j \in 1 .. N |-> IF i = j THEN 1 ELSE 0]]

FloorSqrt(N) == CHOOSE r \in 0 .. N : r * r <= N /\ N < (r + 1) * (r + 1)
CeilSqrt(N) == CHOOSE r \in 0 .. N : (r = 0 \/ (r - 1) * (r - 1) < N) /\ N <= r * r

\* ----------------------------------------------------------------- floats
\* A float is [p, q, r, d]: the number (p + q sqrt(r)) / d with d > 0, kept in
\* lowest terms with r square-free; d = 0 is the IEEE result of p / 0: inf for
\* p = 1, -inf for p = -1, nan for p = 0.
Sgn(x) == IF x > 0 THEN 1 ELSE IF x < 0 THEN -1 ELSE 0
Abs(x) == IF x < 0 THEN 0 - x ELSE x

RECURSIVE GCD(_, _)
GCD(a, b) == IF b = 0 THEN a ELSE GCD(b, a % b)

Float(i) == [p |-> i, q |-> 0, r |-> 1, d |-> 1]
NonFinite(s) == [p |-> s, q |-> 0, r |-> 1, d |-> 0]
IsFinite(v) == v.d # 0
IsNaN(v) == v.d = 0 /\ v.p = 0

\* the largest k whose square divides r
SquarePart(r) ==
    LET ks == {k \in 1 .. FloorSqrt(r) : r % (k * k) = 0}
    IN  CHOOSE k \in ks : \A m \in ks : m <= k

\* (p + q sqrt(r)) / d for d > 0, r > 0, in lowest terms
FloatOf(p, q, r, d) ==
    LET k == IF q = 0 THEN 1 ELSE SquarePart(r)
        r1 == IF q = 0 THEN 1 ELSE r \div (k * k)
        p1 == IF r1 = 1 THEN p + q * k ELSE p
        q1 == IF r1 = 1 THEN 0 ELSE q * k
        g == GCD(GCD(Abs(p1), Abs(q1)), d)
    IN  [p |-> p1 \div g, q |-> q1 \div g, r |-> r1, d |-> d \div g]

\* the sign of a float; 0 for nan
FloatSign(v) ==
    IF v.d = 0 \/ v.q = 0 THEN Sgn(v.p)
    ELSE IF v.p = 0 \/ Sgn(v.p) = Sgn(v.q) THEN Sgn(v.q)
    ELSE IF v.p * v.p > v.q * v.q * v.r THEN Sgn(v.p)
    ELSE Sgn(v.q)

\* u + v; two finite operands with a root under them share the radicand
FloatAdd(u, v) ==
    IF IsNaN(u) \/ IsNaN(v) THEN NonFinite(0)
    ELSE IF u.d = 0 /\ v.d = 0 THEN (IF u.p = v.p THEN u ELSE NonFinite(0))
    ELSE IF u.d = 0 THEN u
    ELSE IF v.d = 0 THEN v
    ELSE FloatOf(u.p * v.d + v.p * u.d, u.q * v.d + v.q * u.d,
                 IF u.q = 0 THEN v.r ELSE u.r, u.d * v.d)

\* u * v, as for FloatAdd
FloatMul(u, v) ==
    IF u.d = 0 \/ v.d = 0 THEN NonFinite(FloatSign(u) * FloatSign(v))
    ELSE LET r == IF u.q = 0 THEN v.r ELSE u.r
         IN  FloatOf(u.p * v.p + u.q * v.q * r, u.p * v.q + u.q * v.p, r, u.d * v.d)

RECURSIVE FloatSumTo(_, _)
FloatSumTo(f, n) ==
    IF n = 0 THEN Float(0)
    ELSE IF n = 1 THEN f[1]
    ELSE FloatAdd(FloatSumTo(f, n - 1), f[n])

\* an integer array as a float array
AsFloat(A) == [i \in 1 .. Len(A) |-> [j \in 1 .. Len(A[i]) |-> Float(A[i][j])]]

AllFinite(A) == \A i \in 1 .. Len(A) : \A j \in 1 .. Len(A[i]) : IsFinite(A[i][j])

\* W /= np.std(W, axis=1).reshape(-1, 1) for an integer W: row i has
\* std = sqrt(V) / N with V = N sum(w^2) - sum(w)^2, and w / 0 where V = 0
DivideByRowStd(W) ==
    [i \in 1 .. Len(W) |->
        LET N == Len(W[i])
            sum == SumTo(W[i], N)
            V == N * SumTo([j \in 1 .. N |-> W[i][j] * W[i][j]], N) - sum * sum
        IN  [j \in 1 .. N |->
                IF V = 0 THEN NonFinite(Sgn(W[i][j]))
                ELSE FloatOf(0, W[i][j] * N, V, V)]]

\* --------------------------------------------- numpy's global RandomState
\* one draw moves the generator to its next state
RngNext(s) == (13 * s + 5) % RngMod

RECURSIVE RngAdvance(_, _)
RngAdvance(s, k) == IF k = 0 THEN s ELSE RngAdvance(RngNext(s), k - 1)

\* np.random.seed(x) on global state g: an integer pins the state, None reseeds
\* from OS entropy e; either way the old state g is gone
np_random_seed(g, x, e) == IF x = None THEN e ELSE x % RngMod

\* the number a generator state yields
RngOut(s) == s + (s \div 4)

\* the k-th draw (k >= 1) taken after state s, by distribution
StdNormalAt(s, k) == <<-2, -1, 1, 2>>[(RngOut(RngAdvance(s, k)) % 4) + 1]
RandintAt(s, k, lo, hi) == lo + (RngOut(RngAdvance(s, k)) % (hi - lo))
UniformAt(s, k, lo, hi) == IF hi <= lo THEN lo ELSE RandintAt(s, k, lo, hi)

\* ---------------------------------------------------------- nonlinearities
\* np.maximum(a, b) of two floats; nan if either is
Max(a, b) ==
    IF IsNaN(a) \/ IsNaN(b) THEN NonFinite(0)
    ELSE IF FloatSign(FloatAdd(a, FloatMul(Float(-1), b))) >= 0 THEN a ELSE b

RECURSIVE Pow(_, _)
Pow(x, p) == IF p = 0 THEN Float(1) ELSE FloatMul(x, Pow(x, p - 1))

\* relu(x, thrsh=0) = np.maximum(x, thrsh), elementwise
relu(A, thrsh) ==
    [i \in 1 .. Len(A) |-> [j \in 1 .. Len(A[i]) |-> Max(A[i][j], Float(thrsh))]]

\* poly(x, power=2) = np.power(x, power), elementwise
poly(A, power) ==
    [i \in 1 .. Len(A) |-> [j \in 1 .. Len(A[i]) |-> Pow(A[i][j], power)]]

Nonlinearities == {"relu", "poly"}
ApplyNonlinearity(f, A) == IF f = "relu" THEN relu(A, 0) ELSE poly(A, 2)

\* ------------------------------------------------- legacy weight generator
\* gaussian(X, mu, sigma) = exp(-|mu - X|^2 / (2 sigma^2)), on the grid: the bump
\* is 1 within sigma of its centre and 0 outside
gaussian(X, mu, sigma) == IF (mu - X) * (mu - X) <= sigma * sigma THEN 1 ELSE 0

\* weights=None is written "identity"
\* and a function handle "callable", here lambda M, N: np.ones((M, N))
LegacyWeights == {"unimodal", "white noise", "identity", "callable"}

\* random_feature_matrix(M, N, weights, rand_seed), called with global state g.
\* Returns the matrix and the global state it leaves behind.
random_feature_matrix(M, N, weights, rand_seed, g) ==
    LET seed0 == IF rand_seed = None THEN RandintAt(g, 1, 0, SeedRange) ELSE rand_seed
        g0 == np_random_seed(g, seed0, 0)
        mu == [i \in 1 .. M |-> UniformAt(g0, i, 0, N)]
        sigma == [i \in 1 .. M |-> UniformAt(g0, M + i, 0, N \div 4)]
        scale == [i \in 1 .. M |-> RandintAt(g0, 2 * M + i, 1, ScaleHigh)]
        J == IF weights = "unimodal"
             THEN [i \in 1 .. M |-> [k \in 1 .. N |-> gaussian(k - 1, mu[i], sigma[i]) * scale[i]]]
             ELSE IF weights = "white noise"
             THEN [i \in 1 .. M |-> [j \in 1 .. N |-> StdNormalAt(g0, (i - 1) * N + j)]]
             ELSE IF weights = "identity" THEN Eye(N)
             ELSE [i \in 1 .. M |-> [j \in 1 .. N |-> 1]]
        used == IF weights = "unimodal" THEN 3 * M
                ELSE IF weights = "white noise" THEN M * N ELSE 0
    IN  [err |-> "none", W |-> Transpose(J), rng |-> RngAdvance(g0, used)]

\* ---------------------------------------------------- new weight generators
\* scipy.linalg.dft(N, scale=None)[j][k] = exp(-2 pi i j k / N) = cos - i sin,
\* for N in FeatureCounts, where the angle is a whole number of quarter turns
Quarter(j, k, N) == (4 * ((j * k) % N)) \div N
DftCos(j, k, N) == <<1, 0, -1, 0>>[Quarter(j, k, N) + 1]
DftSin(j, k, N) == <<0, 1, 0, -1>>[Quarter(j, k, N) + 1]

\* np.dot(rand, dft).real for rand[i][j] = re[i][j] + i im[i][j]
DftReal(re, im, M, N) ==
    [i \in 1 .. M |->
              [k \in 1 .. N |->
                  SumTo([j \in 1 .. N |-> re[i][j] * DftCos(j - 1, k - 1, N)
                                          + im[i][j] * DftSin(j - 1, k - 1, N)], N)]]

\* the body of classical_weights after its seed call: one np.random.normal call of
\* size (M, N, 2) taken from global state g0, viewed as complex and multiplied
\* with the DFT matrix
classical_draw(M, N, g0) ==
    LET re == [i \in 1 .. M |-> [j \in 1 .. N |-> StdNormalAt(g0, 2 * ((i - 1) * N + (j - 1)) + 1)]]
        im == [i \in 1 .. M |-> [j \in 1 .. N |-> StdNormalAt(g0, 2 * ((i - 1) * N + (j - 1)) + 2)]]
    IN  [err |-> "none", W |-> DivideByRowStd(DftReal(re, im, M, N)),
         rng |-> RngAdvance(g0, 2 * M * N)]

\* classical_weights with the np.random.seed(random_state) call left out
classical_weights_unseeded(M, N, random_state, g, e) == classical_draw(M, N, g)

\* classical_weights(M, N, random_state) called with global state g; e is the
\* entropy np.random.seed(None) takes
classical_weights(M, N, random_state, g, e) ==
    classical_draw(M, N, np_random_seed(g, random_state, e))

Min(a, b) == IF a <= b THEN a ELSE b

\* haltere_inspired_weights(M, N, lowcut, highcut, random_state), 0 <= lowcut <= highcut.
\* The drawn block has shape (M, highcut-lowcut, 1) and is squeezed with no axis,
\* so every length-1 dimension goes; the slice rand[:, lowcut:highcut] is clipped
\* to the N columns there are.  The assignment raises when the two do not broadcast.
haltere_inspired_weights(M, N, lowcut, highcut, random_state, g, e) ==
    LET g0 == np_random_seed(g, random_state, e)
        band == highcut - lowcut
        cols == Min(highcut, N) - Min(lowcut, N)
        g1 == RngAdvance(g0, 2 * M * band)
        fits == (M = 1 /\ band = 1) \/ (band # 1 /\ band = cols)
        drawn(i, jj, part) == StdNormalAt(g0, 2 * ((i - 1) * band + (jj - 1)) + part)
        inband(j) == j > lowcut /\ j <= lowcut + cols
        re == [i \in 1 .. M |-> [j \in 1 .. N |-> IF inband(j) THEN drawn(i, j - lowcut, 1) ELSE 0]]
        im == [i \in 1 .. M |-> [j \in 1 .. N |-> IF inband(j) THEN drawn(i, j - lowcut, 2) ELSE 0]]
    IN  IF fits
        THEN [err |-> "none", W |-> DivideByRowStd(DftReal(re, im, M, N)), rng |-> g1]
        ELSE [err |-> "ValueError", W |-> <<>>, rng |-> g1]

SqDist(p, q) == (p[1] - q[1]) * (p[1] - q[1]) + (p[2] - q[2]) * (p[2] - q[2])

\* V1_inspired_kernel_matrix(N, t, l, m).  The grid has CeilSqrt(N)^2 points
\* (np.arange(np.sqrt(N))), and K += 1e-5 * np.eye(N) raises unless that is N.
\* K[p][q] = 10 exp(-a/(2 l^2)) exp(-b[q]/(2 t^2)) exp(-c[p]/(2 t^2))
\*         = KernelAmp * exp(-E[p][q] / (2 l^2 t^2)); the matrix is kept as E.
V1_inspired_kernel_matrix(N, t, l, m) ==
    LET side == CeilSqrt(N)
        pts == side * side
        grid == [p \in 1 .. pts |-> <<(p - 1) \div side, (p - 1) % side>>]
        a == [p \in 1 .. pts |-> [q \in 1 .. pts |-> SqDist(grid[p], grid[q])]]
        b == [p \in 1 .. pts |-> SqDist(grid[p], m)]
        E == [p \in 1 .. pts |-> [q \in 1 .. pts |-> a[p][q] * t * t + (b[q] + b[p]) * l * l]]
    IN  IF pts = N
        THEN [err |-> "none", K |-> [amp |-> KernelAmp, E |-> E, den |-> 2 * l * l * t * t]]
        ELSE [err |-> "ValueError", K |-> <<>>]

\* V1_inspired_weights_for_center with its own np.random.seed(random_state) left
\* out, so that a row's noise continues the stream of the row before
V1_inspired_weights_for_center_unseeded(N, t, l, m, random_state, g, e) ==
    LET K == V1_inspired_kernel_matrix(N, t, l, m)
        z == [j \in 1 .. N |-> StdNormalAt(g, j)]
    IN  IF K.err # "none"
        THEN [err |-> K.err, w |-> <<>>, rng |-> g]
        ELSE [err |-> "none", w |-> [K |-> K.K, z |-> z], rng |-> RngAdvance(g, N)]

\* V1_inspired_weights_for_center(N, t, l, m, random_state): one row, the lower
\* Cholesky factor of K applied to N standard-normal draws.  The row is kept as
\* the pair (K, z) that determines it.
V1_inspired_weights_for_center(N, t, l, m, random_state, g, e) ==
    LET g0 == np_random_seed(g, random_state, e)
        K == V1_inspired_kernel_matrix(N, t, l, m)
        z == [j \in 1 .. N |-> StdNormalAt(g0, j)]
    IN  IF K.err # "none"
        THEN [err |-> K.err, w |-> <<>>, rng |-> g0]
        ELSE [err |-> "none", w |-> [K |-> K.K, z |-> z], rng |-> RngAdvance(g0, N)]

\* V1_inspired_weights(M, N, t, l, random_state); ent[1] is the entropy of the
\* first np.random.seed, ent[i + 1] that of the i-th row's.
V1_inspired_weights(M, N, t, l, random_state, g, ent) ==
    LET g0 == np_random_seed(g, random_state, ent[1])
        side == FloorSqrt(N)
        centers == [i \in 1 .. M |-> <<RandintAt(g0, 2 * i - 1, 0, side),
                                       RandintAt(g0, 2 * i, 0, side)>>]
        \* the rows are drawn one after the other: row i starts from the global
        \* state row i - 1 left (the centers' draws left RngAdvance(g0, 2 * M))
        RECURSIVE row(_)
        row(i) == V1_inspired_weights_for_center(N, t, l, centers[i], random_state,
                      IF i = 1 THEN RngAdvance(g0, 2 * M) ELSE row(i - 1).rng, ent[i + 1])
    IN  IF row(1).err # "none"
        THEN [err |-> row(1).err, W |-> <<>>, rng |-> row(1).rng, centers |-> centers]
        ELSE [err |-> "none", W |-> [i \in 1 .. M |-> row(i).w],
              rng |-> row(M).rng, centers |-> centers]

\* ------------------------------------------------ injected linear classifier
\* The inner classifier is an sklearn linear classifier used through fit / predict /
\* score / coef_ / intercept_.  Its fit validates its input before it learns
\* anything: it raises on a non-finite entry, on inconsistent sample counts and on
\* fewer than two classes, and then leaves its learned attributes as they were.
\* What it learns is a function of (H, y) alone (no warm start).  The stand-in
\* here learns the class-centroid direction and the class prior, and predicts by
\* the features' signed agreement with that direction.
Classes(y) == {y[i] : i \in 1 .. Len(y)}

ClfCoef(H, y) ==
    [j \in 1 .. Shape(H)[2] |->
        FloatSumTo([i \in 1 .. Len(H) |->
                       IF y[i] = 1 THEN H[i][j] ELSE FloatMul(Float(-1), H[i][j])], Len(H))]

ClfIntercept(H, y) ==
    Cardinality({i \in 1 .. Len(y) : y[i] = 1}) - Cardinality({i \in 1 .. Len(y) : y[i] # 1})

Decision(coef, intercept, h) ==
    2 * SumTo([j \in 1 .. Len(coef) |-> FloatSign(coef[j]) * FloatSign(h[j])], Len(coef))
        + Sgn(intercept)

UnfittedClf == [kind |-> "instance", fitted |-> FALSE, coef_ |-> <<>>, intercept_ |-> 0]

\* clf.fit(H, y): [err, clf]
ClfFit(clf, H, y) ==
    IF ~AllFinite(H) \/ Len(H) # Len(y) \/ Cardinality(Classes(y)) < 2
    THEN [err |-> "ValueError", clf |-> clf]
    ELSE [err |-> "none",
          clf |-> [kind |-> "instance", fitted |-> TRUE, coef_ |-> ClfCoef(H, y),
                   intercept_ |-> ClfIntercept(H, y)]]

\* clf.predict(H): [err, ret]
ClfPredict(clf, H) ==
    IF ~clf.fitted THEN [err |-> "NotFittedError", ret |-> <<>>]
    ELSE IF ~AllFinite(H) \/ Shape(H)[2] # Len(clf.coef_)
    THEN [err |-> "ValueError", ret |-> <<>>]
    ELSE [err |-> "none",
          ret |-> [i \in 1 .. Len(H) |->
                      IF Decision(clf.coef_, clf.intercept_, H[i]) > 0 THEN 1 ELSE 0]]

\* clf.score(H, y): accuracy, kept as <<correct, total>>
ClfScore(clf, H, y) ==
    LET p == ClfPredict(clf, H)
    IN  IF p.err # "none" THEN p
        ELSE IF Len(y) # Len(H) THEN [err |-> "ValueError", ret |-> <<>>]
        ELSE [err |-> "none",
              ret |-> <<Cardinality({i \in 1 .. Len(H) : p.ret[i] = y[i]}), Len(H)>>]

\* ------------------------------------------------------- estimator objects
\* An estimator is its attribute dictionary: has is the set of fitted attributes
\* that exist; seed and clf are constructor attributes the legacy fit rewrites.
NoAttrs == [has |-> {}, seed |-> None, W_ |-> <<>>, b_ |-> 0, H_ |-> <<>>, coef_ |-> <<>>,
            intercept_ |-> 0]

\* sklearn.utils.validation.check_is_fitted(self, attributes)
check_is_fitted(est, attributes) == attributes \subseteq est.has

\* np.dot(X, W.T) + b
Project(X, W, b) ==
    [i \in 1 .. Len(X) |->
        [k \in 1 .. Len(W) |->
            FloatAdd(FloatSumTo([j \in 1 .. Len(W[k]) |-> FloatMul(Float(X[i][j]), W[k][j])],
                                Len(W[k])),
                     Float(b))]]

\* the weight_fun call of _fit_transform: with kwargs the band-limited generator,
\* without the classical one
WeightFun(cfg, n_features, g, e) ==
    IF cfg.kwargs # <<>>
    THEN haltere_inspired_weights(cfg.width, n_features, cfg.kwargs[1], cfg.kwargs[2],
                                  cfg.random_state, g, e)
    ELSE classical_weights(cfg.width, n_features, cfg.random_state, g, e)

\* the three assignments of _fit_transform once weight_fun has returned W
SetProjection(cfg, est, X, W) ==
    [est EXCEPT !.has = @ \cup {"W_", "b_", "H_"},
                !.W_ = W,
                !.b_ = cfg.bias,
                !.H_ = ApplyNonlinearity(cfg.nonlinearity, Project(X, W, cfg.bias))]

\* RFClassifier._fit_transform(X) of the new module: [err, est, rng]
_fit_transform(cfg, est, X, g, e) ==
    LET n_features == Shape(X)[2]
        r == WeightFun(cfg, n_features, g, e)
    IN  IF r.err # "none"
        THEN [err |-> r.err, est |-> est, rng |-> r.rng]
        ELSE [err |-> "none", rng |-> r.rng, est |-> SetProjection(cfg, est, X, r.W)]

\* self.coef_ = self.clf.coef_; self.intercept_ = self.clf.intercept_
SetClassifierParams(est, clf) ==
    [est EXCEPT !.has = @ \cup {"coef_", "intercept_"},
                !.coef_ = clf.coef_,
                !.intercept_ = clf.intercept_]

\* RFClassifier.fit(X, y) of the new module: [err, est, clf, rng, generated, handed]
\* generated: the weight generator was called; handed: what clf.fit was given
fit(cfg, est, clf, X, y, g, e) ==
    LET t == _fit_transform(cfg, est, X, g, e)
        c == ClfFit(clf, t.est.H_, y)
    IN  IF t.err # "none"
        THEN [err |-> t.err, est |-> t.est, clf |-> clf, rng |-> t.rng, generated |-> TRUE,
              handed |-> <<>>]
        ELSE IF c.err # "none"
        THEN [err |-> c.err, est |-> t.est, clf |-> c.clf, rng |-> t.rng, generated |-> TRUE,
              handed |-> t.est.H_]
        ELSE [err |-> "none", clf |-> c.clf, rng |-> t.rng, generated |-> TRUE,
              handed |-> t.est.H_,
              est |-> SetClassifierParams(t.est, c.clf)]

\* transform with the bias left out of the projection
transform_without_bias(cfg, est, X) ==
    IF ~check_is_fitted(est, {"W_", "b_"}) THEN [err |-> "NotFittedError", ret |-> <<>>]
    ELSE IF Shape(X)[2] # Shape(est.W_)[2] THEN [err |-> "ValueError", ret |-> <<>>]
    ELSE [err |-> "none",
          ret |-> ApplyNonlinearity(cfg.nonlinearity, Project(X, est.W_, 0))]

\* RFClassifier.transform(X) of the new module: [err, ret]
transform(cfg, est, X) ==
    IF ~check_is_fitted(est, {"W_", "b_"}) THEN [err |-> "NotFittedError", ret |-> <<>>]
    ELSE IF Shape(X)[2] # Shape(est.W_)[2] THEN [err |-> "ValueError", ret |-> <<>>]
    ELSE [err |-> "none",
          ret |-> ApplyNonlinearity(cfg.nonlinearity, Project(X, est.W_, est.b_))]

\* RFClassifier.score(X, y) of the new module: [err, ret]
score(cfg, est, clf, X, y) ==
    LET H == transform(cfg, est, X)
    IN  IF H.err # "none" THEN H
        ELSE IF ~check_is_fitted(est, {"coef_", "intercept_"})
        THEN [err |-> "NotFittedError", ret |-> <<>>]
        ELSE ClfScore(clf, H.ret, y)

\* RFClassifier.fit(X, y) of the legacy module: [err, est, clf, rng, generated, handed]
legacy_fit(cfg, est, clf, X, y, g) ==
    LET n == Shape(X)[2]
        drew == est.seed = None
        seed == IF drew THEN RandintAt(g, 1, 0, SeedRange) ELSE est.seed
        g1 == IF drew THEN RngNext(g) ELSE g
        est1 == [est EXCEPT !.seed = seed]
        r == random_feature_matrix(cfg.width, n, cfg.weights, seed, g1)
        H == relu(AsFloat(Dot(X, r.W)), 0)
        c == ClfFit(UnfittedClf, H, y)
        est2 == [est1 EXCEPT !.has = @ \cup {"W_"}, !.W_ = r.W]
    IN  IF Len(X) # Len(y)
        THEN [err |-> "ValueError", est |-> est, clf |-> clf, rng |-> g, generated |-> FALSE,
              handed |-> <<>>]
        ELSE IF clf.kind = "instance"
        THEN \* self.clf(**self.clf_args) calls the instance an earlier fit stored
             [err |-> "TypeError", est |-> est1, clf |-> clf, rng |-> g1,
              generated |-> FALSE, handed |-> <<>>]
        ELSE IF c.err # "none"
        THEN [err |-> c.err, est |-> est2, clf |-> UnfittedClf, rng |-> r.rng,
              generated |-> TRUE, handed |-> H]
        ELSE [err |-> "none", est |-> [est2 EXCEPT !.has = @ \cup {"_fitted"}], clf |-> c.clf,
              rng |-> r.rng, generated |-> TRUE, handed |-> H]

\* RFClassifier.transform(X) of the legacy module: [err, ret]
legacy_transform(est, X) ==
    IF "W_" \notin est.has THEN [err |-> "AttributeError", ret |-> <<>>]
    ELSE IF Shape(X)[2] # Len(est.W_) THEN [err |-> "ValueError", ret |-> <<>>]
    ELSE [err |-> "none", ret |-> relu(AsFloat(Dot(X, est.W_)), 0)]

\* RFClassifier.predict(X) of the legacy module: [err, ret]
legacy_predict(est, clf, X) ==
    LET H == legacy_transform(est, X)
    IN  IF H.err # "none" THEN H ELSE ClfPredict(clf, H.ret)

\* RFClassifier.score(X, y) of the legacy module: [err, ret]
legacy_score(est, clf, X, y) ==
    LET H == legacy_transform(est, X)
    IN  IF H.err # "none" THEN H ELSE ClfScore(clf, H.ret, y)

\* ------------------------------------------------------------------ state
VARIABLES
    rng,       \* numpy's global RandomState (np.random.seed / np.random.*)
    req,       \* generators: the generator and arguments under test
    cur,       \* generators: the last call made, where it started and its result
    impl,      \* estimators: which module's RFClassifier is in use
    cfg,       \* estimators: the constructor arguments
    est,       \* estimators: the RFClassifier object's attributes
    clf,       \* estimators: the inner classifier object
    last,      \* estimators: the last method call, its arguments and outcome
    hist,      \* estimators: what the fit calls so far have done (history)
    trial      \* harness: each delayed clf_wrapper call's position and locals

genVars == <<req, cur>>
estVars == <<impl, cfg, est, clf, last, hist>>
harnessVars == <<trial>>
vars == <<rng, req, cur, impl, cfg, est, clf, last, hist, trial>>

\* --------------------------------------------------- generator invocations
\* called: a call was made; dirty: a foreign draw followed it; again: the last
\* call repeated an earlier one with a foreign draw in between
NoCall == [called |-> FALSE, dirty |-> FALSE, again |-> FALSE, err |-> "none", W |-> <<>>,
           shape |-> <<0, 0>>, centers |-> <<>>]

V1Params == {<<1, 1>>, <<2, 1>>}

\* the (lowcut, highcut) bands tried with N features: one column or up to the last,
\* from column 0 or 1
HaltereBands(N) == {x \in {0, 1} \X (1 .. N) : x[1] < x[2] /\ x[2] \in {x[1] + 1, N}}

\* the generators and the argument lists they are called with
Requests ==
    {[gen |-> "random_feature_matrix", M |-> M, N |-> N, seed |-> seed, p1 |-> 0, p2 |-> 0,
      kind |-> w] :
        M \in 1 .. MaxM, N \in FeatureCounts, seed \in SeedsOrNone, w \in LegacyWeights}
    \cup
    {[gen |-> "classical_weights", M |-> M, N |-> N, seed |-> seed, p1 |-> 0, p2 |-> 0,
      kind |-> ""] :
        M \in 1 .. MaxM, N \in FeatureCounts, seed \in SeedsOrNone}
    \cup
    UNION {{[gen |-> "haltere_inspired_weights", M |-> M, N |-> N, seed |-> seed,
              p1 |-> lh[1], p2 |-> lh[2], kind |-> ""] :
                M \in 1 .. MaxM, seed \in SeedsOrNone, lh \in HaltereBands(N)} :
           N \in FeatureCounts}
    \cup
    {[gen |-> "V1_inspired_weights", M |-> M, N |-> N, seed |-> seed, p1 |-> tl[1],
      p2 |-> tl[2], kind |-> ""] :
        M \in 1 .. MaxM, N \in FeatureCounts, seed \in SeedsOrNone, tl \in V1Params}

V1Shape(r) == IF r.err = "none" THEN <<Len(r.W), Len(r.W[1].z)>> ELSE <<0, 0>>

\* the entropy a call can take: none when the seed is an integer
EntropyFor(seed, k) == IF seed = None THEN [1 .. k -> Entropy] ELSE {[i \in 1 .. k |-> 0]}

Returned(r, shape, centers) ==
    /\ cur' = [called |-> TRUE, dirty |-> FALSE, again |-> cur.again \/ cur.dirty,
               err |-> r.err, W |-> r.W, shape |-> shape, centers |-> centers]
    /\ rng' = r.rng
    /\ UNCHANGED <<req, estVars, harnessVars>>

CallLegacy ==
    /\ req.gen = "random_feature_matrix"
    /\ LET r == random_feature_matrix(req.M, req.N, req.kind, req.seed, rng)
       IN  Returned(r, Shape(r.W), <<>>)

CallClassical ==
    /\ req.gen = "classical_weights"
    /\ \E ent \in EntropyFor(req.seed, 1) :
        LET r == classical_weights(req.M, req.N, req.seed, rng, ent[1])
        IN  Returned(r, Shape(r.W), <<>>)

CallHaltere ==
    /\ req.gen = "haltere_inspired_weights"
    /\ \E ent \in EntropyFor(req.seed, 1) :
        LET r == haltere_inspired_weights(req.M, req.N, req.p1, req.p2, req.seed, rng, ent[1])
        IN  Returned(r, Shape(r.W), <<>>)

CallV1 ==
    /\ req.gen = "V1_inspired_weights"
    /\ \E ent \in EntropyFor(req.seed, req.M + 1) :
        LET r == V1_inspired_weights(req.M, req.N, req.p1, req.p2, req.seed, rng, ent)
        IN  Returned(r, V1Shape(r), r.centers)

\* some other code draws from the global state between two generator calls
\* (the legacy fit's np.random.randint(1000) is one such draw)
OtherDraw ==
    /\ rng' = RngNext(rng)
    /\ cur' = [cur EXCEPT !.dirty = cur.called]
    /\ UNCHANGED <<req, estVars, harnessVars>>

NoEstimator ==
    /\ impl = "none" /\ cfg = <<>> /\ est = NoAttrs /\ clf = UnfittedClf
    /\ last = <<>> /\ hist = <<>>

NoHarness == trial = <<>>

InitGen == rng \in RngStates /\ req \in Requests /\ cur = NoCall /\ NoEstimator /\ NoHarness
NextGen == CallLegacy \/ CallClassical \/ CallHaltere \/ CallV1 \/ OtherDraw
SpecGen == InitGen /\ [][NextGen]_vars

\* C6: when a generator is called again with the same arguments and the same
\* integer seed, after whatever calls and draws moved the global random state,
\* it returns the matrix (or fails the way) it did before.
C6_SeedDeterminism ==
    [][(cur.called /\ cur'.called /\ req.seed # None)
         => (cur'.W = cur.W /\ cur'.err = cur.err)]_vars

\* C6 witness: a seeded call that returned a matrix and repeated an earlier call
\* after foreign draws had moved the global state.
C6_Witness ==
    /\ cur.called /\ cur.again /\ req.seed # None /\ cur.err = "none"
    /\ req.gen = "V1_inspired_weights" /\ req.M = 2 /\ req.N = 4

\* the requests every generator documents as valid: the identity generator is
\* asked for N rows, the receptive-field generator for a square number of
\* features, the band lies within the N columns (HaltereBands)
ValidRequest ==
    /\ (req.gen = "random_feature_matrix" /\ req.kind = "identity") => req.M = req.N
    /\ req.gen = "V1_inspired_weights" => FloorSqrt(req.N) * FloorSqrt(req.N) = req.N

\* C7 (as claimed): every generator call with M > 0 and N > 0 returns a matrix
\* of shape exactly (M, N).
C7_ShapeIsWidthByFeatures ==
    (cur.called /\ ValidRequest) => (cur.err = "none" /\ cur.shape = <<req.M, req.N>>)

\* C10: in the receptive-field generator with an integer seed, two rows that
\* were given the same center are the same row.
C10_SameCenterSameRow ==
    (cur.called /\ req.gen = "V1_inspired_weights" /\ req.seed # None /\ cur.err = "none")
        => \A i, j \in 1 .. req.M : cur.centers[i] = cur.centers[j] => cur.W[i] = cur.W[j]

\* C10 witness: a returned matrix whose first two rows sit on one center.
C10_Witness ==
    /\ cur.called /\ req.gen = "V1_inspired_weights" /\ req.seed # None /\ cur.err = "none"
    /\ req.N = 4 /\ req.M >= 2
    /\ cur.centers[1] = cur.centers[2]

\* -------------------------------------------------------- estimator calls
\* training and test inputs: a two-sample matrix of every width and a one-sample
\* matrix of the largest; label vectors of each length, one with a single class
\* and one with both
SampleCounts == {1, 2}
DataX(s, n) == [i \in 1 .. s |-> [j \in 1 .. n |-> (2 * i - 3) * j]]
Xs == {DataX(2, n) : n \in EstFeatureCounts} \cup {DataX(1, 2)}
Ys == {[i \in 1 .. s |-> IF both THEN (i + 1) % 2 ELSE 0] : s \in SampleCounts, both \in BOOLEAN}

\* the width and the random_state / seed arguments the estimators are built with
Widths == {1, 2}
EstSeeds == {None, 0}

\* constructor arguments tried.  The new module's weight_fun is the classical
\* generator, or with kwargs = (lowcut, highcut) the band-limited one; the legacy
\* module is built with weight_fun=None and nonlinearity=relu.
NewConfigs ==
    {[width |-> w, weights |-> "", kwargs |-> k[1], bias |-> k[2], nonlinearity |-> k[3],
      random_state |-> rs, clf |-> "instance"] :
        w \in Widths, rs \in EstSeeds,
        k \in {<<<<>>, 0, "relu">>, <<<<>>, 1, "poly">>, <<<<0, 2>>, 0, "relu">>}}

LegacyConfigs ==
    {[width |-> w, weights |-> k[1], kwargs |-> <<>>, bias |-> 0, nonlinearity |-> "relu",
      random_state |-> rs, clf |-> k[2]] :
        w \in Widths, rs \in EstSeeds,
        k \in {<<"white noise", "None">>, <<"unimodal", "class">>, <<"identity", "None">>,
               <<"callable", "class">>}}

\* y is kept for fit calls only
NoCallYet == [op |-> "init", err |-> "none", X |-> <<>>, y |-> <<>>, ret |-> <<>>,
              generated |-> FALSE, refit |-> FALSE]

\* everFit: fit has been called; fitOK: the most recent fit call returned; X, H:
\* its input and what it handed to clf.fit; W, b: the projection in use when the
\* classifier's current parameters were learned
NoHist == [everFit |-> FALSE, fitOK |-> FALSE, X |-> <<>>, H |-> <<>>, W |-> <<>>, b |-> 0]

Fitted ==
    IF impl = "new" THEN check_is_fitted(est, {"W_", "b_", "coef_", "intercept_"})
    ELSE "_fitted" \in est.has

AfterFit(r, X, y) ==
    /\ est' = r.est
    /\ clf' = r.clf
    /\ rng' = r.rng
    /\ last' = [op |-> "fit", err |-> r.err, X |-> X, y |-> y, ret |-> <<>>,
                generated |-> r.generated, refit |-> Fitted]
    /\ hist' = [everFit |-> TRUE, fitOK |-> r.err = "none", X |-> X, H |-> r.handed,
                W |-> IF r.err = "none" THEN r.est.W_ ELSE hist.W,
                b |-> IF r.err = "none" THEN r.est.b_ ELSE hist.b]
    /\ UNCHANGED <<impl, cfg, genVars, harnessVars>>

AfterCall(op, r, X, y) ==
    /\ last' = [op |-> op, err |-> r.err, X |-> X, y |-> y, ret |-> r.ret,
                generated |-> FALSE, refit |-> FALSE]
    /\ UNCHANGED <<impl, cfg, est, clf, rng, hist, genVars, harnessVars>>

Fit ==
    /\ impl = "new"
    /\ \E X \in Xs, y \in Ys, e \in (IF cfg.random_state = None THEN Entropy ELSE {0}) :
        AfterFit(fit(cfg, est, clf, X, y, rng, e), X, y)

Transform ==
    /\ impl = "new"
    /\ \E X \in Xs : AfterCall("transform", transform(cfg, est, X), X, <<>>)

\* the new module's RFClassifier defines no predict, and neither do its bases
Predict ==
    /\ impl = "new"
    /\ \E X \in Xs : AfterCall("predict", [err |-> "AttributeError", ret |-> <<>>], X, <<>>)

Score ==
    /\ impl = "new"
    /\ \E X \in Xs, y \in Ys : AfterCall("score", score(cfg, est, clf, X, y), X, <<>>)

LegacyFit ==
    /\ impl = "legacy"
    /\ \E X \in Xs, y \in Ys : AfterFit(legacy_fit(cfg, est, clf, X, y, rng), X, y)

LegacyTransform ==
    /\ impl = "legacy"
    /\ \E X \in Xs : AfterCall("transform", legacy_transform(est, X), X, <<>>)

LegacyPredict ==
    /\ impl = "legacy"
    /\ \E X \in Xs : AfterCall("predict", legacy_predict(est, clf, X), X, <<>>)

LegacyScore ==
    /\ impl = "legacy"
    /\ \E X \in Xs, y \in Ys : AfterCall("score", legacy_score(est, clf, X, y), X, <<>>)

NoRequest == [gen |-> "none", M |-> 0, N |-> 0, seed |-> None, p1 |-> 0, p2 |-> 0, kind |-> ""]

\* RFClassifier(**params): nothing is fitted, the constructor only stores its arguments
InitEst ==
    /\ rng = 0
    /\ impl \in {"new", "legacy"}
    /\ cfg \in (IF impl = "new" THEN NewConfigs ELSE LegacyConfigs)
    /\ est = [NoAttrs EXCEPT !.seed = cfg.random_state]
    /\ clf = [UnfittedClf EXCEPT !.kind = cfg.clf]
    /\ last = NoCallYet
    /\ hist = NoHist
    /\ req = NoRequest /\ cur = NoCall /\ NoHarness

NextEst ==
    \/ Fit \/ Transform \/ Predict \/ Score
    \/ LegacyFit \/ LegacyTransform \/ LegacyPredict \/ LegacyScore

SpecEst == InitEst /\ [][NextEst]_vars

InferenceOps == {"transform", "predict", "score"}

\* C1 (as claimed): on an estimator on which fit was never called, transform,
\* predict and score each fail with a not-fitted error, return nothing and leave
\* the estimator unfitted.
C1_UnfittedCallsRaiseNotFitted ==
    (~hist.everFit /\ last.op \in InferenceOps)
        => (last.err = "NotFittedError" /\ last.ret = <<>> /\ ~Fitted)

\* C2 (as claimed): fit(X, y) with X.shape[0] # y.shape[0] fails with a
\* dimension-mismatch error before the weight generator is called.
C2_MismatchStopsBeforeGeneration ==
    (last.op = "fit" /\ Len(last.X) # Len(last.y))
        => (last.err = "ValueError" /\ ~last.generated)

\* what a freshly constructed estimator of the same configuration does on (X, y),
\* started with global state g and entropy e
FreshFit(X, y, g, e) ==
    IF impl = "new"
    THEN fit(cfg, [NoAttrs EXCEPT !.seed = cfg.random_state],
             [UnfittedClf EXCEPT !.kind = cfg.clf], X, y, g, e)
    ELSE legacy_fit(cfg, [NoAttrs EXCEPT !.seed = cfg.random_state],
                    [UnfittedClf EXCEPT !.kind = cfg.clf], X, y, g)

SameModel(f) ==
    /\ est.W_ = f.est.W_ /\ est.b_ = f.est.b_
    /\ clf.fitted = f.clf.fitted /\ clf.coef_ = f.clf.coef_ /\ clf.intercept_ = f.clf.intercept_

\* C3 (as claimed): fit called again on a fitted estimator, with an input a fresh
\* estimator can be fitted on, succeeds and leaves the W, b and classifier state
\* that a fresh estimator of the same configuration gets from that input.
C3_RefitEqualsFreshFit ==
    (last.op = "fit" /\ last.refit /\ FreshFit(last.X, last.y, 0, 0).err = "none")
        => /\ last.err = "none"
           /\ \E g \in RngStates, e \in Entropy : SameModel(FreshFit(last.X, last.y, g, e))

\* C4: transform and score leave W and b as they are, and after a fit that
\* returned, transform of the training input is the representation fit handed to
\* the inner classifier.
C4_TransformReproducesFitRepresentation ==
    [][/\ last'.op \in InferenceOps
            => (est'.has = est.has /\ est'.W_ = est.W_ /\ est'.b_ = est.b_)
       /\ (last'.op = "transform" /\ hist'.fitOK /\ last'.X = hist'.X)
            => (last'.err = "none" /\ last'.ret = hist'.H)]_vars

\* C4 witness: the new module's estimator with a nonzero bias, fitted, has
\* transformed its training input into a representation with two different
\* features in some row.
C4_Witness ==
    /\ impl = "new" /\ cfg.bias # 0 /\ cfg.width = 2
    /\ last.op = "transform" /\ hist.fitOK /\ last.X = hist.X /\ last.err = "none"
    /\ Shape(last.X) = <<2, 2>>
    /\ \E i \in 1 .. 2 : last.ret[i][1] # last.ret[i][2]

\* C8 (as claimed): whenever W, b or the inner classifier's fitted parameters are
\* missing, transform and score of the new module fail with a not-fitted error.
C8_MissingPartMeansNotFitted ==
    (impl = "new" /\ last.op \in {"transform", "score"}
        /\ ~check_is_fitted(est, {"W_", "b_", "coef_", "intercept_"}))
        => last.err = "NotFittedError"

\* C9 (as claimed): the W_ and b_ that transform and score of the new module use
\* are the ones its current coef_ and intercept_ were fitted on.
C9_ProjectionMatchesClassifier ==
    (impl = "new" /\ check_is_fitted(est, {"W_", "b_", "coef_", "intercept_"}))
        => (est.W_ = hist.W /\ est.b_ = hist.b)

\* ------------------------------------------------------ evaluation harness
\* parallelized_clf(RFClassifier, params, X_train, y_train, X_test, y_test, n_iters):
\* n_iters delayed clf_wrapper calls handed to dask.compute, whose scheduler for
\* delayed objects is the thread pool of this process.  Every call gets the same
\* params dictionary, so every estimator's self.clf is the one object params["clf"];
\* every generator call seeds and draws from numpy's one global RandomState.  A
\* thread can be preempted between any two library calls, so each call below is a
\* step of its own.
NTrials == 2
Trials == 1 .. NTrials

X_train == DataX(2, 2)
y_train == <<0, 1>>
X_test == DataX(2, 2)
y_test == <<1, 0>>

HarnessParams ==
    {[width |-> w, weights |-> "", kwargs |-> <<>>, bias |-> k[1], nonlinearity |-> k[2],
      clf |-> "instance", random_state |-> s] :
        w \in Widths, s \in SeedsOrNone, k \in {<<0, "relu">>, <<1, "poly">>}}

NoTrial == [pc |-> "start", e |-> 0, est |-> NoAttrs, test |-> <<>>, train |-> <<>>]

\* clf = RFClassifier(**params); clf.fit -> _fit_transform -> classical_weights:
\* np.random.seed(random_state)
TrialSeed(i) ==
    /\ trial[i].pc = "start"
    /\ \E e \in (IF cfg.random_state = None THEN Entropy ELSE {0}) :
        /\ rng' = np_random_seed(rng, cfg.random_state, e)
        /\ trial' = [trial EXCEPT ![i] = [@ EXCEPT !.pc = "draw", !.e = e,
                                             !.est = [NoAttrs EXCEPT !.seed = cfg.random_state]]]
    /\ UNCHANGED <<genVars, estVars>>

\* classical_weights: the np.random.normal call and the rest of the generator,
\* then the assignments of W_, b_ and H_
TrialDraw(i) ==
    /\ trial[i].pc = "draw"
    /\ LET r == classical_draw(cfg.width, Shape(X_train)[2], rng)
       IN  /\ rng' = r.rng
           /\ trial' = [trial EXCEPT ![i] = [@ EXCEPT !.pc = "clf_fit",
                                                !.est = SetProjection(cfg, @, X_train, r.W)]]
    /\ UNCHANGED <<genVars, estVars>>

\* self.clf.fit(self.H_, y) on the shared classifier object
TrialClfFit(i) ==
    /\ trial[i].pc = "clf_fit"
    /\ LET c == ClfFit(clf, trial[i].est.H_, y_train)
       IN  /\ clf' = c.clf
           /\ trial' = [trial EXCEPT ![i] =
                            [@ EXCEPT !.pc = IF c.err # "none" THEN "raised"
                                             ELSE "read_coef"]]
    /\ UNCHANGED <<rng, genVars, impl, cfg, est, last, hist>>

\* self.coef_ = self.clf.coef_: what the shared classifier holds by now
TrialReadCoef(i) ==
    /\ trial[i].pc = "read_coef"
    /\ trial' = [trial EXCEPT ![i] =
                    [@ EXCEPT !.pc = "read_intercept",
                              !.est = [@ EXCEPT !.has = @ \cup {"coef_"},
                                                !.coef_ = clf.coef_]]]
    /\ UNCHANGED <<rng, genVars, estVars>>

\* self.intercept_ = self.clf.intercept_: what the shared classifier holds by now
TrialReadIntercept(i) ==
    /\ trial[i].pc = "read_intercept"
    /\ trial' = [trial EXCEPT ![i] =
                    [@ EXCEPT !.pc = "score_test",
                              !.est = [@ EXCEPT !.has = @ \cup {"intercept_"},
                                                !.intercept_ = clf.intercept_]]]
    /\ UNCHANGED <<rng, genVars, estVars>>

\* test_error = clf.score(X_test, y_test)
TrialScoreTest(i) ==
    /\ trial[i].pc = "score_test"
    /\ LET r == score(cfg, trial[i].est, clf, X_test, y_test)
       IN  trial' = [trial EXCEPT ![i] =
                        IF r.err # "none" THEN [@ EXCEPT !.pc = "raised"]
                        ELSE [@ EXCEPT !.pc = "score_train", !.test = r.ret]]
    /\ UNCHANGED <<rng, genVars, estVars>>

\* train_error = clf.score(X_train, y_train); return train_error, test_error
TrialScoreTrain(i) ==
    /\ trial[i].pc = "score_train"
    /\ LET r == score(cfg, trial[i].est, clf, X_train, y_train)
       IN  trial' = [trial EXCEPT ![i] =
                        IF r.err # "none" THEN [@ EXCEPT !.pc = "raised"]
                        ELSE [@ EXCEPT !.pc = "done", !.train = r.ret]]
    /\ UNCHANGED <<rng, genVars, estVars>>

\* np.mean and np.std of accuracies c[i] / total over the trials, kept exact:
\* the mean as <<sum c, n * total>>, the std by its square
\* <<n * sum c^2 - (sum c)^2, (n * total)^2>>
MeanAndStd(c, total) ==
    LET n == Len(c)
        sum == SumTo(c, n)
        squares == SumTo([i \in 1 .. n |-> c[i] * c[i]], n)
    IN  [mean |-> <<sum, n * total>>,
         std_squared |-> <<n * squares - sum * sum, (n * total) * (n * total)>>]

\* dask.compute returned: the four statistics of parallelized_clf
Collect ==
    /\ last.op # "collect"
    /\ \A i \in Trials : trial[i].pc = "done"
    /\ last' = [NoCallYet EXCEPT
                   !.op = "collect",
                   !.ret = <<MeanAndStd([i \in Trials |-> trial[i].train[1]], Len(X_train)),
                             MeanAndStd([i \in Trials |-> trial[i].test[1]], Len(X_test))>>]
    /\ UNCHANGED <<rng, genVars, impl, cfg, est, clf, hist, harnessVars>>

InitHarness ==
    /\ rng \in RngStates
    /\ impl = "new"
    /\ cfg \in HarnessParams
    /\ est = NoAttrs
    /\ clf = UnfittedClf
    /\ last = NoCallYet
    /\ hist = NoHist
    /\ req = NoRequest /\ cur = NoCall
    /\ trial = [i \in Trials |-> NoTrial]

NextHarness ==
    \/ \E i \in Trials : TrialSeed(i)
    \/ \E i \in Trials : TrialDraw(i)
    \/ \E i \in Trials : TrialClfFit(i)
    \/ \E i \in Trials : TrialReadCoef(i)
    \/ \E i \in Trials : TrialReadIntercept(i)
    \/ \E i \in Trials : TrialScoreTest(i)
    \/ \E i \in Trials : TrialScoreTrain(i)
    \/ Collect

SpecHarness == InitHarness /\ [][NextHarness]_vars

\* clf_wrapper run on its own: one fresh estimator and a classifier nobody else
\* touches, with entropy e for an unpinned seed
RunAlone(e) ==
    LET f == fit(cfg, [NoAttrs EXCEPT !.seed = cfg.random_state], UnfittedClf,
                 X_train, y_train, 0, e)
        test == score(cfg, f.est, f.clf, X_test, y_test)
        train == score(cfg, f.est, f.clf, X_train, y_train)
    IN  IF f.err # "none" \/ test.err # "none" \/ train.err # "none"
        THEN [pc |-> "raised", train |-> <<>>, test |-> <<>>]
        ELSE [pc |-> "done", train |-> train.ret, test |-> test.ret]

\* C5 (as claimed): in every interleaving of the concurrent trials, a trial that
\* has ended has ended as it does when it runs alone: it raised if and only if it
\* raises alone, and it holds the train and test scores it gets alone.
C5_TrialScoresAsIfAlone ==
    \A i \in DOMAIN trial :
        trial[i].pc \in {"done", "raised"}
            => LET alone == RunAlone(trial[i].e)
               IN  /\ trial[i].pc = alone.pc
                   /\ trial[i].pc = "done"
                        => (trial[i].train = alone.train /\ trial[i].test = alone.test)

====
